---- MODULE Spec2Model ----
(***************************************************************************)
(* Block timing and statistics of SBstoat/_logger.py: BlockSpecification,  *)
(* Statistic and Logger.                                                   *)
(*                                                                         *)
(* Objects live in two heaps, so that aliasing is visible: loggerHeap[i]   *)
(* is the Logger object with identity i, statHeap[j] the Statistic object  *)
(* with identity j.  A BlockSpecification is held by exactly one blockDct  *)
(* and is kept there by value.                                             *)
(*                                                                         *)
(* Times are clock ticks.  Python floats are modelled by a binary floating *)
(* point format with a MantBits-bit significand and round-half-to-even, a  *)
(* scaled-down IEEE double: every float addition of the code is FAdd.      *)
(***************************************************************************)
EXTENDS Integers, Sequences, FiniteSets, TLC

VARIABLES
    guidCounter,   \* BlockSpecification.guid, the class attribute
    clock,         \* the current reading of time.time()
    loggerHeap,    \* the Logger objects
    statHeap,      \* the Statistic objects
    lastOp,        \* the last call made: its name, arguments and outcome
    closeLog,      \* history: closeLog[l][b], the durations of the closes of b on Logger l
    threads        \* the threads of the concurrent specification

vars == <<guidCounter, clock, loggerHeap, statHeap, lastOp, closeLog, threads>>

(***************************************************************************)
(* Bounds of the model.                                                    *)
(***************************************************************************)
MantBits == 2       \* bits of the significand of a float
MaxClock == 2       \* the clock stops advancing here
MaxGuid == 2        \* spans created in one behaviour
MaxCloses == 2      \* spans a Logger has opened before it is merged
MaxMerge == 2       \* length of the list given to Logger.merge
MaxCount == 1       \* count of a Statistic drawn as an input
MaxTotal == 4       \* total of a Statistic drawn as an input

\* The block names, in ascending order.
BlockOrder == <<"x", "y">>
Blocks == {BlockOrder[i] : i \in DOMAIN BlockOrder}
BlockRank(b) == CHOOSE i \in DOMAIN BlockOrder : BlockOrder[i] = b
NoBlock == "None"

(***************************************************************************)
(* Program constants.                                                      *)
(***************************************************************************)
LEVEL_ACTIVITY == 1
LEVEL_RESULT == 2
LEVEL_STATUS == 3
LEVEL_EXCEPTION == 4
LEVEL_ERROR == 5
LEVEL_MAX == LEVEL_ERROR

(***************************************************************************)
(* Floats.                                                                 *)
(***************************************************************************)
RECURSIVE Pow2(_)
Pow2(n) == IF n = 0 THEN 1 ELSE 2 * Pow2(n - 1)

\* The significands are the integers below Significands.
Significands == Pow2(MantBits)

RECURSIVE UlpFrom(_, _)
UlpFrom(x, u) == IF x < u * Significands THEN u ELSE UlpFrom(x, 2 * u)

\* The spacing of the floats around x >= 0.
Ulp(x) == UlpFrom(x, 1)

\* x >= 0 rounded to the nearest float, ties to the even significand.
Round(x) ==
    LET u == Ulp(x)
        lo == (x \div u) * u
        r == x - lo
    IN  IF 2 * r < u THEN lo
        ELSE IF 2 * r > u THEN lo + u
        ELSE IF (lo \div u) % 2 = 0 THEN lo ELSE lo + u

IsFloat(x) == Round(x) = x

\* a + b on two floats.
FAdd(a, b) == Round(a + b)

RECURSIVE Gcd(_, _)
Gcd(a, b) == IF b = 0 THEN a ELSE Gcd(b, a % b)

\* The mean attribute: unset (None), or a quotient kept in lowest terms.
MeanNone == [set |-> FALSE, num |-> 0, den |-> 1]
MeanZero == [set |-> TRUE, num |-> 0, den |-> 1]

\* total / count, count > 0.
FDiv(total, count) ==
    LET g == Gcd(total, count)
    IN  [set |-> TRUE, num |-> total \div g, den |-> count \div g]

(***************************************************************************)
(* Statistic.                                                              *)
(***************************************************************************)
\* Statistic.__init__
Statistic_init(block) ==
    [block |-> block, count |-> 0, total |-> 0, mean |-> MeanNone]

\* _helpers.copyObject on a Statistic: a new object with the same attributes.
CopyObjectStatistic(sh, s) ==
    [sh |-> Append(sh, sh[s]), ret |-> Len(sh) + 1]

\* Statistic.copy
Statistic_copy(sh, s) == CopyObjectStatistic(sh, s)

\* Statistic.update
Statistic_update(sh, s, value) ==
    [sh EXCEPT ![s].count = @ + 1, ![s].total = FAdd(@, value)]

\* Statistic.merge writing through the receiver instead of a copy.
Statistic_merge_InPlace(sh, s, o) ==
    LET h1 == [sh EXCEPT ![s].count = sh[s].count + sh[o].count]
        h2 == [h1 EXCEPT ![s].total = FAdd(h1[s].total, h1[o].total)]
    IN  [sh |-> h2, ret |-> s]

\* Statistic.merge that keeps the receiver's total.
Statistic_merge_NoTotal(sh, s, o) ==
    LET c == Statistic_copy(sh, s)
        n == c.ret
    IN  [sh |-> [c.sh EXCEPT ![n].count = c.sh[s].count + c.sh[o].count],
         ret |-> n]

\* Statistic.merge: the attributes of STATISTIC_ATTR_MERGE, count then total,
\* are set on a copy of the receiver.
Statistic_merge(sh, s, o) ==
    LET c == Statistic_copy(sh, s)
        n == c.ret
        h1 == [c.sh EXCEPT ![n].count = c.sh[s].count + c.sh[o].count]
        h2 == [h1 EXCEPT ![n].total = FAdd(h1[s].total, h1[o].total)]
    IN  [sh |-> h2, ret |-> n]

\* Statistic.summarize that starts the accumulation afresh.
Statistic_summarize_Consuming(sh, s) ==
    IF sh[s].count = 0
    THEN [sh EXCEPT ![s].mean = MeanZero]
    ELSE [sh EXCEPT ![s].mean = FDiv(sh[s].total, sh[s].count),
                    ![s].count = 0, ![s].total = 0]

\* Statistic.summarize
Statistic_summarize(sh, s) ==
    IF sh[s].count = 0
    THEN [sh EXCEPT ![s].mean = MeanZero]
    ELSE [sh EXCEPT ![s].mean = FDiv(sh[s].total, sh[s].count)]

(***************************************************************************)
(* Dictionaries.  statisticDct keeps its insertion order, which is the     *)
(* order Logger._merge and performanceDF walk it in: a sequence of         *)
(* [block, ref] items, ref the identity of the Statistic.  blockDct is     *)
(* only looked up by key: a function from guids to BlockSpecifications.    *)
(***************************************************************************)
DctKeys(d) == {d[i].block : i \in DOMAIN d}

DctGet(d, k) == d[CHOOSE i \in DOMAIN d : d[i].block = k].ref

DctSet(d, k, r) ==
    IF k \in DctKeys(d)
    THEN [i \in DOMAIN d |-> IF d[i].block = k THEN [block |-> k, ref |-> r] ELSE d[i]]
    ELSE Append(d, [block |-> k, ref |-> r])

MapPut(f, k, v) == [x \in DOMAIN f \cup {k} |-> IF x = k THEN v ELSE f[x]]

MapDel(f, k) == [x \in DOMAIN f \ {k} |-> f[x]]

EmptyMap == [x \in {} |-> 0]

(***************************************************************************)
(* BlockSpecification.                                                     *)
(***************************************************************************)
\* BlockSpecification.__init__, given the guid it read and the clock reading;
\* duration is <<>> for None.
BlockSpecification_init(block, guid, now) ==
    [guid |-> guid, startTime |-> now, block |-> block, duration |-> <<>>]

\* BlockSpecification.setDuration
BlockSpecification_setDuration(spec, now) ==
    [spec EXCEPT !.duration = <<now - spec.startTime>>]

(***************************************************************************)
(* Logger.                                                                 *)
(***************************************************************************)
NoReport == [cached |-> FALSE, rows |-> <<>>]

\* Logger.__init__; toFile is None throughout.
Logger_init(isReport, logLevel, now) ==
    [isReport |-> isReport, toFile |-> "None", startTime |-> now,
     logLevel |-> logLevel, unpairedBlocks |-> 0, blockDct |-> EmptyMap,
     performanceDF |-> NoReport, statisticDct |-> <<>>]

\* The tests of Logger.activity, result, status and error: whether the
\* message is written.
Logger_activity(logger) ==
    logger.isReport /\ logger.logLevel >= LEVEL_ACTIVITY

Logger_result(logger) ==
    logger.isReport /\ logger.logLevel >= LEVEL_RESULT

Logger_status(logger) ==
    logger.isReport /\ logger.logLevel >= LEVEL_STATUS

Logger_error(logger) ==
    logger.isReport /\ logger.logLevel >= LEVEL_ERROR

\* The test of Logger.exception: whether the message is written.
Logger_exception(logger) ==
    logger.isReport /\ logger.logLevel >= LEVEL_EXCEPTION

\* Logger.startBlock, after BlockSpecification.__init__ has made spec.
Logger_startBlock(lh, l, spec) ==
    [lh EXCEPT ![l].blockDct = MapPut(@, spec.guid, spec)]

\* Logger.endBlock that makes a new Statistic on every close.
Logger_endBlock_AlwaysNew(lh, sh, l, guid, now) ==
    IF guid \notin DOMAIN lh[l].blockDct
    THEN [lh |-> lh, sh |-> sh,
          emitted |-> IF Logger_exception(lh[l]) THEN "exception" ELSE "none"]
    ELSE LET spec == BlockSpecification_setDuration(lh[l].blockDct[guid], now)
             sh1 == Append(sh, Statistic_init(spec.block))
             lh1 == [lh EXCEPT ![l].statisticDct = DctSet(@, spec.block, Len(sh) + 1)]
             sh2 == Statistic_update(sh1, Len(sh) + 1, spec.duration[1])
             lh2 == [lh1 EXCEPT ![l].blockDct = MapDel(@, spec.guid)]
         IN  [lh |-> lh2, sh |-> sh2, emitted |-> "none"]

\* Logger.endBlock that counts an unknown guid under the first block name.
Logger_endBlock_CountsUnknown(lh, sh, l, guid, now) ==
    IF guid \notin DOMAIN lh[l].blockDct /\ lh[l].statisticDct # <<>>
    THEN [lh |-> lh, emitted |-> "none",
          sh |-> Statistic_update(sh, lh[l].statisticDct[1].ref, 0)]
    ELSE Logger_endBlock_AlwaysNew(lh, sh, l, guid, now)

\* Logger.endBlock that leaves the span it closed in blockDct.
Logger_endBlock_KeepsSpan(lh, sh, l, guid, now) ==
    IF guid \notin DOMAIN lh[l].blockDct
    THEN [lh |-> lh, sh |-> sh,
          emitted |-> IF Logger_exception(lh[l]) THEN "exception" ELSE "none"]
    ELSE LET spec == BlockSpecification_setDuration(lh[l].blockDct[guid], now)
             has == spec.block \in DctKeys(lh[l].statisticDct)
             sh1 == IF has THEN sh ELSE Append(sh, Statistic_init(spec.block))
             lh1 == IF has THEN lh
                    ELSE [lh EXCEPT ![l].statisticDct = DctSet(@, spec.block, Len(sh) + 1)]
             sh2 == Statistic_update(sh1, DctGet(lh1[l].statisticDct, spec.block),
                                     spec.duration[1])
         IN  [lh |-> lh1, sh |-> sh2, emitted |-> "none"]

\* Logger.endBlock; emitted is the message it wrote.
Logger_endBlock(lh, sh, l, guid, now) ==
    IF guid \notin DOMAIN lh[l].blockDct
    THEN [lh |-> lh, sh |-> sh,
          emitted |-> IF Logger_exception(lh[l]) THEN "exception" ELSE "none"]
    ELSE LET spec == BlockSpecification_setDuration(lh[l].blockDct[guid], now)
             has == spec.block \in DctKeys(lh[l].statisticDct)
             sh1 == IF has THEN sh ELSE Append(sh, Statistic_init(spec.block))
             lh1 == IF has THEN lh
                    ELSE [lh EXCEPT ![l].statisticDct = DctSet(@, spec.block, Len(sh) + 1)]
             sh2 == Statistic_update(sh1, DctGet(lh1[l].statisticDct, spec.block),
                                     spec.duration[1])
             lh2 == [lh1 EXCEPT ![l].blockDct = MapDel(@, spec.guid)]
         IN  [lh |-> lh2, sh |-> sh2, emitted |-> "none"]

\* _helpers.copyObject on a Logger: a deep copy, with new Statistic objects.
CopyObjectLogger(lh, sh, l) ==
    LET d == lh[l].statisticDct
        newD == [i \in DOMAIN d |-> [block |-> d[i].block, ref |-> Len(sh) + i]]
    IN  [lh |-> Append(lh, [lh[l] EXCEPT !.statisticDct = newD]),
         sh |-> sh \o [i \in DOMAIN d |-> sh[d[i].ref]],
         ret |-> Len(lh) + 1]

\* Logger.copy as a shallow copy: the new Logger holds the same Statistics.
Logger_copy_Shallow(lh, sh, l) ==
    [lh |-> Append(lh, lh[l]), sh |-> sh, ret |-> Len(lh) + 1]

\* Logger.copy
Logger_copy(lh, sh, l) == CopyObjectLogger(lh, sh, l)

\* The loop of Logger._merge passing over a name the other Logger lacks.
RECURSIVE MergeItems_SkipMissing(_, _, _, _, _, _)
MergeItems_SkipMissing(lh, sh, items, i, newLogger, other) ==
    IF i > Len(items)
    THEN [lh |-> lh, sh |-> sh, raised |-> "none", key |-> NoBlock, ret |-> newLogger]
    ELSE LET block == items[i].block
         IN  IF block \notin DctKeys(lh[other].statisticDct)
             THEN MergeItems_SkipMissing(lh, sh, items, i + 1, newLogger, other)
             ELSE LET m == Statistic_merge(sh, items[i].ref,
                                           DctGet(lh[other].statisticDct, block))
                      lh1 == [lh EXCEPT ![newLogger].statisticDct = DctSet(@, block, m.ret)]
                  IN  MergeItems_SkipMissing(lh1, m.sh, items, i + 1, newLogger, other)

\* The loop of Logger._merge over self.statisticDct.items(), from item i on.
RECURSIVE MergeItems(_, _, _, _, _, _)
MergeItems(lh, sh, items, i, newLogger, other) ==
    IF i > Len(items)
    THEN [lh |-> lh, sh |-> sh, raised |-> "none", key |-> NoBlock, ret |-> newLogger]
    ELSE LET block == items[i].block
         IN  IF block \notin DctKeys(lh[other].statisticDct)
             THEN [lh |-> lh, sh |-> sh, raised |-> "KeyError", key |-> block, ret |-> 0]
             ELSE LET m == Statistic_merge(sh, items[i].ref,
                                           DctGet(lh[other].statisticDct, block))
                      lh1 == [lh EXCEPT ![newLogger].statisticDct = DctSet(@, block, m.ret)]
                  IN  MergeItems(lh1, m.sh, items, i + 1, newLogger, other)

\* Logger._merge
Logger__merge(lh, sh, self, other) ==
    LET c == Logger_copy(lh, sh, self)
    IN  MergeItems(c.lh, c.sh, lh[self].statisticDct, 1, c.ret, other)

\* The loop of Logger.merge over others[1:], from others[i] on (1-based);
\* newLogger is 0 while the name is unbound.
RECURSIVE MergeFold(_, _, _, _, _, _)
MergeFold(lh, sh, others, i, curLogger, newLogger) ==
    IF i > Len(others)
    THEN IF newLogger = 0
         THEN [lh |-> lh, sh |-> sh, raised |-> "UnboundLocalError",
               key |-> NoBlock, ret |-> 0]
         ELSE [lh |-> lh, sh |-> sh, raised |-> "none", key |-> NoBlock, ret |-> newLogger]
    ELSE LET m == Logger__merge(lh, sh, curLogger, others[i])
         IN  IF m.raised # "none" THEN m
             ELSE MergeFold(m.lh, m.sh, others, i + 1, m.ret, m.ret)

\* Logger.merge
Logger_merge(lh, sh, others) ==
    IF others = <<>>
    THEN [lh |-> lh, sh |-> sh, raised |-> "IndexError", key |-> NoBlock, ret |-> 0]
    ELSE MergeFold(lh, sh, others, 2, others[1], 0)

\* The loop [s.summarize() for s in self.statisticDct.values()], from item i on.
RECURSIVE SummarizeItems(_, _, _)
SummarizeItems(sh, items, i) ==
    IF i > Len(items) THEN sh
    ELSE SummarizeItems(Statistic_summarize(sh, items[i].ref), items, i + 1)

\* DataFrame.sort_index on rows with distinct block names.
SortIndex(rows) ==
    LET pos(i) == 1 + Cardinality({j \in DOMAIN rows :
                                     BlockRank(rows[j].block) < BlockRank(rows[i].block)})
    IN  [p \in DOMAIN rows |-> rows[CHOOSE i \in DOMAIN rows : pos(i) = p]]

\* performanceDF that drops the open spans once it has counted them.
Logger_performanceDF_DropsSpans(lh, sh, l) ==
    IF lh[l].performanceDF.cached
    THEN [lh |-> lh, sh |-> sh, ret |-> lh[l].performanceDF.rows]
    ELSE LET d == lh[l].statisticDct
             sh1 == SummarizeItems(sh, d, 1)
             rows == [i \in DOMAIN d |->
                        [block |-> d[i].block, count |-> sh1[d[i].ref].count,
                         mean |-> sh1[d[i].ref].mean, total |-> sh1[d[i].ref].total]]
             df == SortIndex(rows)
         IN  [lh |-> [lh EXCEPT ![l].unpairedBlocks = Cardinality(DOMAIN lh[l].blockDct),
                                ![l].blockDct = EmptyMap,
                                ![l].performanceDF = [cached |-> TRUE, rows |-> df]],
              sh |-> sh1, ret |-> df]

\* The property Logger.performanceDF; ret is the table returned.
Logger_performanceDF(lh, sh, l) ==
    IF lh[l].performanceDF.cached
    THEN [lh |-> lh, sh |-> sh, ret |-> lh[l].performanceDF.rows]
    ELSE LET d == lh[l].statisticDct
             sh1 == SummarizeItems(sh, d, 1)
             rows == [i \in DOMAIN d |->
                        [block |-> d[i].block, count |-> sh1[d[i].ref].count,
                         mean |-> sh1[d[i].ref].mean, total |-> sh1[d[i].ref].total]]
             df == SortIndex(rows)
         IN  [lh |-> [lh EXCEPT ![l].unpairedBlocks = Cardinality(DOMAIN lh[l].blockDct),
                                ![l].performanceDF = [cached |-> TRUE, rows |-> df]],
              sh |-> sh1, ret |-> df]

\* dict == dict on two blockDct: the same keys with the same objects.  A
\* BlockSpecification has no __eq__ and is held by one Logger only.
BlockDctEq(lh, a, b) ==
    /\ DOMAIN lh[a].blockDct = DOMAIN lh[b].blockDct
    /\ a # b => DOMAIN lh[a].blockDct = {}

\* dict == dict on two statisticDct: the same keys with the same objects, as
\* a Statistic has no __eq__.
StatisticDctEq(lh, a, b) ==
    /\ DctKeys(lh[a].statisticDct) = DctKeys(lh[b].statisticDct)
    /\ \A k \in DctKeys(lh[a].statisticDct) :
         DctGet(lh[a].statisticDct, k) = DctGet(lh[b].statisticDct, k)

\* DataFrame == DataFrame can be made when the two tables have the same labels.
SameLabels(rows1, rows2) ==
    [i \in DOMAIN rows1 |-> rows1[i].block] = [i \in DOMAIN rows2 |-> rows2[i].block]

\* Logger.equals: the attributes of LOGGER_ATTR are compared in turn; reading
\* performanceDF computes the report of both Loggers.  all() of the table a
\* DataFrame comparison gives runs over its column names, and is True.
Logger_equals(lh, sh, a, b) ==
    LET first == /\ lh[a].isReport = lh[b].isReport
                 /\ lh[a].toFile = lh[b].toFile
                 /\ lh[a].startTime = lh[b].startTime
                 /\ lh[a].logLevel = lh[b].logLevel
                 /\ lh[a].unpairedBlocks = lh[b].unpairedBlocks
                 /\ BlockDctEq(lh, a, b)
        p1 == Logger_performanceDF(lh, sh, a)
        p2 == Logger_performanceDF(p1.lh, p1.sh, b)
    IN  IF ~SameLabels(p1.ret, p2.ret)
        THEN [lh |-> p2.lh, sh |-> p2.sh, raised |-> "ValueError", ret |-> FALSE]
        ELSE [lh |-> p2.lh, sh |-> p2.sh, raised |-> "none",
              ret |-> first /\ StatisticDctEq(lh, a, b)]

(***************************************************************************)
(* Object identities.  The Loggers a caller holds are kept; Statistics are *)
(* renumbered in the order the kept Loggers reach them, so that an object  *)
(* nobody references any more (an accumulator of Logger.merge, the copy a  *)
(* merged Statistic replaced) leaves the heap.                             *)
(***************************************************************************)
RECURSIVE FlatRefs(_, _, _)
FlatRefs(lh, keep, i) ==
    IF i > Len(keep) THEN <<>>
    ELSE [j \in DOMAIN lh[keep[i]].statisticDct |-> lh[keep[i]].statisticDct[j].ref]
         \o FlatRefs(lh, keep, i + 1)

NewRef(flat, r) ==
    LET first == CHOOSE j \in DOMAIN flat :
                    flat[j] = r /\ \A k \in 1..(j - 1) : flat[k] # r
    IN  Cardinality({flat[k] : k \in 1..first})

Collect(lh, sh, keep) ==
    LET flat == FlatRefs(lh, keep, 1)
        live == {flat[j] : j \in DOMAIN flat}
    IN  [lh |-> [i \in DOMAIN keep |->
                   [lh[keep[i]] EXCEPT !.statisticDct =
                      [j \in DOMAIN @ |-> [block |-> @[j].block,
                                           ref |-> NewRef(flat, @[j].ref)]]]],
         sh |-> [n \in 1..Cardinality(live) |->
                   sh[CHOOSE r \in live : NewRef(flat, r) = n]]]

(***************************************************************************)
(* The calls of a single-threaded caller.                                  *)
(***************************************************************************)
Call(op) ==
    [op |-> op, logger |-> 0, found |-> FALSE, others |-> <<>>,
     raised |-> "none", key |-> NoBlock, ret |-> 0, emitted |-> "none",
     report |-> <<>>, equal |-> FALSE]

Refs == DOMAIN loggerHeap

Held == [i \in DOMAIN loggerHeap |-> i]

\* Two Loggers made at time 0: Logger() and Logger(logLevel=LEVEL_EXCEPTION).
Init ==
    /\ guidCounter = 0
    /\ clock = 0
    /\ loggerHeap = <<Logger_init(TRUE, LEVEL_STATUS, 0),
                      Logger_init(TRUE, LEVEL_EXCEPTION, 0)>>
    /\ statHeap = <<>>
    /\ lastOp = Call("Logger")
    /\ closeLog = [l \in 1..2 |-> [b \in Blocks |-> <<>>]]
    /\ threads = <<>>

\* time.time() moves on.
Tick ==
    /\ clock < MaxClock
    /\ clock' = clock + 1
    /\ lastOp' = Call("tick")
    /\ UNCHANGED <<guidCounter, loggerHeap, statHeap, closeLog, threads>>

\* loggerHeap[l].startBlock(block)
StartBlock(l, block) ==
    /\ guidCounter < MaxGuid
    /\ LET spec == BlockSpecification_init(block, guidCounter, clock)
       IN  /\ guidCounter' = guidCounter + 1
           /\ loggerHeap' = Logger_startBlock(loggerHeap, l, spec)
           /\ lastOp' = [Call("startBlock") EXCEPT !.logger = l, !.ret = spec.guid]
    /\ UNCHANGED <<clock, statHeap, closeLog, threads>>

\* loggerHeap[l].endBlock(guid); args is what lastOp keeps of the argument.
EndBlockAs(l, guid, args) ==
    /\ \E r \in {Logger_endBlock(loggerHeap, statHeap, l, guid, clock)} :
       \E c \in {Collect(r.lh, r.sh, Held)} :
           /\ loggerHeap' = c.lh
           /\ statHeap' = c.sh
           /\ lastOp' = [Call("endBlock") EXCEPT
                           !.logger = l,
                           !.others = args,
                           !.found = guid \in DOMAIN loggerHeap[l].blockDct,
                           !.emitted = r.emitted]
    /\ UNCHANGED <<guidCounter, clock, threads>>

\* loggerHeap[l].endBlock(guid)
EndBlockCall(l, guid) == EndBlockAs(l, guid, <<>>)

\* endBlock, with the guid and the close written to the history.
EndBlock(l, guid) ==
    /\ EndBlockAs(l, guid, <<guid>>)
    /\ closeLog' =
         IF guid \in DOMAIN loggerHeap[l].blockDct
         THEN LET spec == loggerHeap[l].blockDct[guid]
              IN  [closeLog EXCEPT ![l][spec.block] = Append(@, clock - spec.startTime)]
         ELSE closeLog

\* loggerHeap[l].performanceDF
PerformanceDF(l) ==
    /\ \E r \in {Logger_performanceDF(loggerHeap, statHeap, l)} :
           /\ loggerHeap' = r.lh
           /\ statHeap' = r.sh
           /\ lastOp' = [Call("performanceDF") EXCEPT !.logger = l, !.report = r.ret]
    /\ UNCHANGED <<guidCounter, clock, closeLog, threads>>

Next ==
    \/ Tick
    \/ \E l \in Refs, block \in Blocks : StartBlock(l, block)
    \/ \E l \in Refs, guid \in 0..guidCounter : EndBlock(l, guid)

Spec == Init /\ [][Next]_vars

(***************************************************************************)
(* Claims on a Logger used by one thread (Spec).                           *)
(***************************************************************************)
\* The float sum of the durations, added in the order of the closes.
RECURSIVE FSumFrom(_, _, _)
FSumFrom(durations, i, acc) ==
    IF i > Len(durations) THEN acc
    ELSE FSumFrom(durations, i + 1, FAdd(acc, durations[i]))

FSum(durations) == FSumFrom(durations, 1, 0)

StatOf(l, b) == statHeap[DctGet(loggerHeap[l].statisticDct, b)]

\* C1: after any sequence of startBlock and endBlock calls, the statistic of
\* each block name counts the closes of that name and totals their durations,
\* and a name that was never closed has no entry in statisticDct.
C1_CountAndTotal ==
    \A l \in Refs, b \in Blocks :
        IF closeLog[l][b] = <<>>
        THEN b \notin DctKeys(loggerHeap[l].statisticDct)
        ELSE /\ b \in DctKeys(loggerHeap[l].statisticDct)
             /\ StatOf(l, b).count = Len(closeLog[l][b])
             /\ StatOf(l, b).total = FSum(closeLog[l][b])

\* A block closed twice with a non-zero total, beside a block never closed.
C1_Witness ==
    \E l \in Refs, b \in Blocks, other \in Blocks :
        /\ Len(closeLog[l][b]) = 2
        /\ StatOf(l, b).total > 0
        /\ closeLog[l][other] = <<>>

\* C2: endBlock with a guid that is not in blockDct raises nothing and leaves
\* statisticDct, every Statistic and blockDct as they were.
C2_UnknownGuidIsNoOp ==
    [][(lastOp'.op = "endBlock" /\ ~lastOp'.found)
         => /\ lastOp'.raised = "none"
            /\ loggerHeap' = loggerHeap
            /\ statHeap' = statHeap]_vars

\* An unknown guid was ended on a Logger that holds a statistic and an open
\* span, and the message was written.
C2_Witness ==
    /\ lastOp.op = "endBlock" /\ ~lastOp.found /\ lastOp.emitted = "exception"
    /\ \E l \in Refs : /\ loggerHeap[l].statisticDct # <<>>
                       /\ DOMAIN loggerHeap[l].blockDct # {}
                       /\ Logger_exception(loggerHeap[l])

(***************************************************************************)
(* Logger.merge (SpecMerge).  Two Loggers A = loggerHeap[1] and            *)
(* B = loggerHeap[2] have each timed up to MaxCloses blocks, one after the *)
(* other, and may have left the last one open; the k-th span of the run    *)
(* lasts k ticks.  They are then merged and their reports read, in any     *)
(* order.  The Logger the merge returned is loggerHeap[3]: its report is   *)
(* read and the spans it holds are ended.                                  *)
(***************************************************************************)
Scripts ==
    {[blocks |-> bs, open |-> o] :
        bs \in UNION {[1..n -> Blocks] : n \in 0..MaxCloses}, o \in BOOLEAN}

\* Logger l runs script from its i-th block on: st.lh[l].startBlock(block),
\* then, unless the block is the one left open, endBlock of the guid returned.
RECURSIVE RunScript(_, _, _, _)
RunScript(st, l, script, i) ==
    IF i > Len(script.blocks) THEN st
    ELSE LET spec == BlockSpecification_init(script.blocks[i], st.guid, st.now)
             lh1 == Logger_startBlock(st.lh, l, spec)
             end == st.now + st.guid + 1
         IN  IF i = Len(script.blocks) /\ script.open
             THEN [st EXCEPT !.lh = lh1, !.guid = @ + 1]
             ELSE LET r == Logger_endBlock(lh1, st.sh, l, spec.guid, end)
                  IN  RunScript([lh |-> r.lh, sh |-> r.sh, guid |-> st.guid + 1,
                                 now |-> end], l, script, i + 1)

Fresh ==
    [lh |-> <<Logger_init(TRUE, LEVEL_STATUS, 0), Logger_init(TRUE, LEVEL_EXCEPTION, 0)>>,
     sh |-> <<>>, guid |-> 0, now |-> 0]

InitMerge ==
    \E s1 \in Scripts, s2 \in Scripts :
        \E st \in {RunScript(RunScript(Fresh, 1, s1, 1), 2, s2, 1)} :
            /\ guidCounter = st.guid
            /\ clock = st.now
            /\ loggerHeap = st.lh
            /\ statHeap = st.sh
            /\ lastOp = Call("Logger")
            /\ closeLog = <<>>
            /\ threads = <<>>

Merged == {1, 2}

MergeArgs == UNION {[1..n -> Merged] : n \in 0..MaxMerge}

\* Logger.merge(others), others a list of A and B, while no merge has
\* returned a Logger; the caller keeps the Logger returned.
Merge(others) ==
    /\ 3 \notin Refs
    /\ \E r \in {Logger_merge(loggerHeap, statHeap, others)} :
       \E new \in {r.raised = "none" /\ r.ret \notin Merged} :
       \E c \in {Collect(r.lh, r.sh, IF new THEN <<1, 2, r.ret>> ELSE <<1, 2>>)} :
           /\ loggerHeap' = c.lh
           /\ statHeap' = c.sh
           /\ lastOp' = [Call("merge") EXCEPT
                           !.others = others, !.raised = r.raised, !.key = r.key,
                           !.ret = IF new THEN 3 ELSE r.ret]
    /\ UNCHANGED <<guidCounter, clock, closeLog, threads>>

\* endBlock on the Logger a merge returned.
MergedEndBlock(guid) ==
    /\ 3 \in Refs
    /\ EndBlockCall(3, guid)
    /\ UNCHANGED closeLog

NextMerge ==
    \/ \E others \in MergeArgs : Merge(others)
    \/ \E l \in Refs : PerformanceDF(l)
    \/ \E guid \in 0..guidCounter : MergedEndBlock(guid)

SpecMerge == InitMerge /\ [][NextMerge]_vars

(***************************************************************************)
(* Claims on Logger.merge (SpecMerge).                                     *)
(***************************************************************************)
KeysOf(l) == DctKeys(loggerHeap[l].statisticDct)

SameKeys(others) == \A i \in DOMAIN others : KeysOf(others[i]) = KeysOf(others[1])

\* The counts of block b over the Loggers of others, added up.
RECURSIVE SumCounts(_, _, _)
SumCounts(others, b, i) ==
    IF i > Len(others) THEN 0
    ELSE StatOf(others[i], b).count + SumCounts(others, b, i + 1)

\* The totals of block b over the Loggers of others, in the order of the list.
Totals(others, b) == [i \in DOMAIN others |-> StatOf(others[i], b).total]

\* C5: merge of a non-empty list of Loggers with the same block names returns
\* a Logger with those names whose counts and totals are the sums over the
\* list.
C5_MergeSums ==
    (lastOp.op = "merge" /\ lastOp.others # <<>> /\ SameKeys(lastOp.others))
      => /\ lastOp.raised = "none"
         /\ lastOp.ret \in Refs
         /\ KeysOf(lastOp.ret) = KeysOf(lastOp.others[1])
         /\ \A b \in KeysOf(lastOp.ret) :
              /\ StatOf(lastOp.ret, b).count = SumCounts(lastOp.others, b, 1)
              /\ StatOf(lastOp.ret, b).total = FSum(Totals(lastOp.others, b))

\* Some step of the fold meets a name of the accumulator, which has the names
\* of others[1], that the next Logger lacks.
Missing(others) ==
    \E i \in 2..Len(others) : ~(KeysOf(others[1]) \subseteq KeysOf(others[i]))

\* The first such name: at the first such step, in the order of statisticDct.
FirstMissing(others) ==
    LET step == CHOOSE i \in 2..Len(others) :
                   /\ ~(KeysOf(others[1]) \subseteq KeysOf(others[i]))
                   /\ \A k \in 2..(i - 1) : KeysOf(others[1]) \subseteq KeysOf(others[k])
        d == loggerHeap[others[1]].statisticDct
        item == CHOOSE j \in DOMAIN d :
                   /\ d[j].block \notin KeysOf(others[step])
                   /\ \A k \in 1..(j - 1) : d[k].block \in KeysOf(others[step])
    IN  d[item].block

\* C6: when a name of the accumulator is absent from the next Logger, merge
\* raises KeyError for that name, returns no Logger, and leaves every Logger
\* and Statistic as it was.
C6_MissingKeyRaises ==
    [][(lastOp'.op = "merge" /\ Missing(lastOp'.others))
         => /\ lastOp'.raised = "KeyError"
            /\ lastOp'.key = FirstMissing(lastOp'.others)
            /\ lastOp'.ret = 0
            /\ loggerHeap' = loggerHeap
            /\ statHeap' = statHeap]_vars

\* merge([A, B]) raised KeyError where A has two names and B one of them.
C6_Witness ==
    /\ lastOp.op = "merge" /\ lastOp.raised = "KeyError"
    /\ Len(lastOp.others) = 2
    /\ KeysOf(lastOp.others[1]) = Blocks
    /\ KeysOf(lastOp.others[2]) = Blocks \ {lastOp.key}

\* C7: merge raises KeyError whenever the Loggers of the list do not all have
\* the same block names.
C7_MismatchRaises ==
    (lastOp.op = "merge" /\ lastOp.others # <<>> /\ ~SameKeys(lastOp.others))
      => lastOp.raised = "KeyError"

\* A and B, their Statistics included, are in the next state as they are now.
InputsUnchanged ==
    \A l \in Merged :
        /\ loggerHeap'[l] = loggerHeap[l]
        /\ \A j \in DOMAIN loggerHeap[l].statisticDct :
             statHeap'[loggerHeap[l].statisticDct[j].ref]
               = statHeap[loggerHeap[l].statisticDct[j].ref]

StatRefs(l) == {loggerHeap[l].statisticDct[j].ref : j \in DOMAIN loggerHeap[l].statisticDct}

\* C8: merge leaves its inputs as they were; what it returns is a new Logger
\* that shares no Statistic with them, and a later call on it changes no input.
C8_MergeLeavesInputs ==
    [][/\ lastOp'.op = "merge"
          => /\ InputsUnchanged
             /\ lastOp'.raised = "none"
                  => /\ lastOp'.ret \notin Merged
                     /\ \A l \in Merged :
                          (StatRefs(lastOp.ret) \cap StatRefs(l))' = {}
       /\ (lastOp'.op \in {"endBlock", "performanceDF"} /\ lastOp'.logger = 3)
          => InputsUnchanged]_vars

\* The merged Logger, which has statistics, has ended a span that A or B still
\* holds open.
C8_Witness ==
    /\ lastOp.op = "endBlock" /\ lastOp.logger = 3 /\ lastOp.found
    /\ \E b \in KeysOf(3) : StatOf(3, b).count >= 2
    /\ \E l \in Merged : DOMAIN loggerHeap[l].blockDct \ DOMAIN loggerHeap[3].blockDct # {}

(***************************************************************************)
(* Statistic on its own (SpecStat): three Statistics A, B, C, which are     *)
(* statHeap[1], [2], [3], in any state update and summarize can leave     *)
(* them in, and the merges made on them.  The Statistic a merge returned   *)
(* is statHeap[4] until the next merge.                                    *)
(***************************************************************************)
Floats == {t \in 0..MaxTotal : IsFloat(t)}

\* The mean of a Statistic that is summarized.
MeanOf(count, total) == IF count = 0 THEN MeanZero ELSE FDiv(total, count)

\* A Statistic after count updates that add up to total, either never
\* summarized or summarized since the last update.
StatInputs ==
    {[block |-> "x", count |-> c, total |-> IF c = 0 THEN 0 ELSE ct[1],
      mean |-> IF ct[2] THEN MeanOf(c, IF c = 0 THEN 0 ELSE ct[1]) ELSE MeanNone] :
        c \in 0..MaxCount, ct \in Floats \X BOOLEAN}

Inputs == {1, 2, 3}

InitStat ==
    /\ guidCounter = 0
    /\ clock = 0
    /\ loggerHeap = <<>>
    /\ statHeap \in [Inputs -> StatInputs]
    /\ lastOp = Call("Statistic")
    /\ closeLog = <<>>
    /\ threads = <<>>

\* statHeap[a].merge(statHeap[b]); the caller keeps the Statistic returned.
StatMerge(a, b) ==
    /\ \E m \in {Statistic_merge(SubSeq(statHeap, 1, 3), a, b)} :
           /\ statHeap' = m.sh
           /\ lastOp' = [Call("Statistic.merge") EXCEPT !.ret = m.ret]
    /\ UNCHANGED <<guidCounter, clock, loggerHeap, closeLog, threads>>

NextStat ==
    \E a \in Inputs, b \in Inputs : StatMerge(a, b)

SpecStat == InitStat /\ [][NextStat]_vars

(***************************************************************************)
(* Claims on Statistic.merge (SpecStat).                                   *)
(***************************************************************************)
\* The count and total of the Statistic a merge returned.
CountTotal(m) == <<m.sh[m.ret].count, m.sh[m.ret].total>>

\* statHeap[a].merge(statHeap[b])
Merged2(a, b) == CountTotal(Statistic_merge(statHeap, a, b))

\* m.sh[m.ret].merge(statHeap[c]), m the outcome of a merge.
ThenMerge(m, c) == CountTotal(Statistic_merge(m.sh, m.ret, c))

\* statHeap[a].merge(m.sh[m.ret]), m the outcome of a merge.
MergeWith(a, m) == CountTotal(Statistic_merge(m.sh, a, m.ret))

\* statHeap[a].merge(statHeap[b]).merge(statHeap[c])
MergedLeft(a, b, c) == ThenMerge(Statistic_merge(statHeap, a, b), c)

\* statHeap[a].merge(statHeap[b].merge(statHeap[c]))
MergedRight(a, b, c) == MergeWith(a, Statistic_merge(statHeap, b, c))

Commutes(a, b) == Merged2(a, b) = Merged2(b, a)

\* C9, as stated: Statistic.merge is commutative and associative on count and
\* total, for all Statistics A, B and C.
C9_CommutativeAssociative ==
    \A a \in Inputs, b \in Inputs, c \in Inputs :
        /\ Commutes(a, b)
        /\ MergedLeft(a, b, c) = MergedRight(a, b, c)

\* The float sum of the two totals is their sum.
ExactSum(a, b) == IsFloat(statHeap[a].total + statHeap[b].total)

\* C9, amended: Statistic.merge is commutative on count and total and
\* associative on count; it is associative on total when the sums of the
\* totals of A and B and of B and C are made without rounding.
C9_AssociativeWhenExact ==
    \A a \in Inputs, b \in Inputs, c \in Inputs :
        /\ Commutes(a, b)
        /\ MergedLeft(a, b, c)[1] = MergedRight(a, b, c)[1]
        /\ (ExactSum(a, b) /\ ExactSum(b, c))
             => MergedLeft(a, b, c) = MergedRight(a, b, c)

\* A merge has returned the sum of two Statistics with different non-zero
\* totals, among three Statistics whose totals add up without rounding.
C9_Witness ==
    /\ lastOp.op = "Statistic.merge"
    /\ statHeap[lastOp.ret].count = 2
    /\ \A a \in Inputs : statHeap[a].total > 0
    /\ statHeap[1].total # statHeap[2].total
    /\ statHeap[lastOp.ret].total = statHeap[1].total + statHeap[2].total
    /\ ExactSum(1, 2) /\ ExactSum(2, 3)

\* C10: the Statistic that Statistic.merge returns has its mean unset.
C10_MergedMeanUnset ==
    lastOp.op = "Statistic.merge" => statHeap[lastOp.ret].mean = MeanNone

(***************************************************************************)
(* Threads (SpecThreads).  MaxThreads threads each run                     *)
(*     guid = logger.startBlock(block); logger.endBlock(guid)              *)
(* on one of two Loggers.  Nothing in the code takes a lock, so a thread   *)
(* can be pre-empted between any two reads or writes of shared data: a     *)
(* step is one read or one write of BlockSpecification.guid, of a          *)
(* dictionary, or of an attribute of a Statistic.  The clock stands still. *)
(***************************************************************************)
MaxThreads == 2

Thread(block, l) ==
    [pc |-> "readGuid", logger |-> l, block |-> block, seq |-> 0, tmp |-> 0,
     spec |-> BlockSpecification_init(block, 0, 0), has |-> FALSE, stat |-> 0,
     raised |-> "none", emitted |-> "none"]

InitThreads ==
    /\ guidCounter = 0
    /\ clock = 0
    /\ loggerHeap = <<Logger_init(TRUE, LEVEL_STATUS, 0),
                      Logger_init(TRUE, LEVEL_EXCEPTION, 0)>>
    /\ statHeap = <<>>
    /\ lastOp = Call("Logger")
    /\ closeLog = <<>>
    /\ \E bs \in [1..MaxThreads -> Blocks], ls \in [1..MaxThreads -> {1, 2}] :
           threads = [t \in 1..MaxThreads |-> Thread(bs[t], ls[t])]

At(t, pc) == threads[t].pc = pc

\* The frame of a step that touches no Logger and no Statistic.
Local == UNCHANGED <<guidCounter, clock, loggerHeap, statHeap, lastOp, closeLog>>

\* The spans created so far.
Created == {t \in DOMAIN threads : threads[t].pc # "readGuid"}

\* BlockSpecification.__init__: self.guid = BlockSpecification.guid
ReadGuid(t) ==
    /\ At(t, "readGuid")
    /\ threads' = [threads EXCEPT ![t].spec.guid = guidCounter,
                                  ![t].seq = Cardinality(Created) + 1,
                                  ![t].pc = "loadGuid"]
    /\ Local

\* BlockSpecification.guid += 1, the read.
LoadGuid(t) ==
    /\ At(t, "loadGuid")
    /\ threads' = [threads EXCEPT ![t].tmp = guidCounter, ![t].pc = "storeGuid"]
    /\ Local

\* BlockSpecification.guid += 1, the write; then the rest of __init__.
StoreGuid(t) ==
    /\ At(t, "storeGuid")
    /\ guidCounter' = threads[t].tmp + 1
    /\ threads' = [threads EXCEPT
                     ![t].spec = BlockSpecification_init(threads[t].block,
                                                         threads[t].spec.guid, clock),
                     ![t].pc = "insert"]
    /\ UNCHANGED <<clock, loggerHeap, statHeap, lastOp, closeLog>>

\* Logger.startBlock: self.blockDct[spec.guid] = spec; the guid is returned
\* and endBlock is called with it.
Insert(t) ==
    /\ At(t, "insert")
    /\ loggerHeap' = Logger_startBlock(loggerHeap, threads[t].logger, threads[t].spec)
    /\ threads' = [threads EXCEPT ![t].pc = "check"]
    /\ UNCHANGED <<guidCounter, clock, statHeap, lastOp, closeLog>>

\* Logger.endBlock: if not guid in self.blockDct.keys()
Check(t) ==
    /\ At(t, "check")
    /\ LET logger == loggerHeap[threads[t].logger]
       IN  IF threads[t].spec.guid \notin DOMAIN logger.blockDct
           THEN threads' = [threads EXCEPT
                              ![t].emitted = IF Logger_exception(logger)
                                             THEN "exception" ELSE "none",
                              ![t].pc = "done"]
           ELSE threads' = [threads EXCEPT ![t].pc = "lookup"]
    /\ Local

\* Logger.endBlock: spec = self.blockDct[guid]; spec.setDuration()
Lookup(t) ==
    /\ At(t, "lookup")
    /\ LET l == threads[t].logger
           guid == threads[t].spec.guid
       IN  IF guid \notin DOMAIN loggerHeap[l].blockDct
           THEN /\ threads' = [threads EXCEPT ![t].raised = "KeyError", ![t].pc = "done"]
                /\ UNCHANGED loggerHeap
           ELSE LET spec == BlockSpecification_setDuration(loggerHeap[l].blockDct[guid],
                                                           clock)
                IN  /\ loggerHeap' = [loggerHeap EXCEPT ![l].blockDct[guid] = spec]
                    /\ threads' = [threads EXCEPT ![t].spec = spec, ![t].pc = "test"]
    /\ UNCHANGED <<guidCounter, clock, statHeap, lastOp, closeLog>>

\* Logger.endBlock: if not spec.block in self.statisticDct.keys()
Test(t) ==
    /\ At(t, "test")
    /\ LET has == threads[t].spec.block
                    \in DctKeys(loggerHeap[threads[t].logger].statisticDct)
       IN  threads' = [threads EXCEPT ![t].has = has,
                                      ![t].pc = IF has THEN "get" ELSE "create"]
    /\ Local

\* Logger.endBlock: self.statisticDct[spec.block] = Statistic(block=spec.block)
Create(t) ==
    /\ At(t, "create")
    /\ statHeap' = Append(statHeap, Statistic_init(threads[t].spec.block))
    /\ loggerHeap' = [loggerHeap EXCEPT ![threads[t].logger].statisticDct =
                        DctSet(@, threads[t].spec.block, Len(statHeap) + 1)]
    /\ threads' = [threads EXCEPT ![t].pc = "get"]
    /\ UNCHANGED <<guidCounter, clock, lastOp, closeLog>>

\* Logger.endBlock: self.statisticDct[spec.block], the receiver of update.
Get(t) ==
    /\ At(t, "get")
    /\ threads' = [threads EXCEPT
                     ![t].stat = DctGet(loggerHeap[threads[t].logger].statisticDct,
                                        threads[t].spec.block),
                     ![t].pc = "loadCount"]
    /\ Local

\* Statistic.update: self.count += 1, the read.
LoadCount(t) ==
    /\ At(t, "loadCount")
    /\ threads' = [threads EXCEPT ![t].tmp = statHeap[threads[t].stat].count,
                                  ![t].pc = "storeCount"]
    /\ Local

\* Statistic.update: self.count += 1, the write.
StoreCount(t) ==
    /\ At(t, "storeCount")
    /\ statHeap' = [statHeap EXCEPT ![threads[t].stat].count = threads[t].tmp + 1]
    /\ threads' = [threads EXCEPT ![t].pc = "loadTotal"]
    /\ UNCHANGED <<guidCounter, clock, loggerHeap, lastOp, closeLog>>

\* Statistic.update: self.total += value, the read.
LoadTotal(t) ==
    /\ At(t, "loadTotal")
    /\ threads' = [threads EXCEPT ![t].tmp = statHeap[threads[t].stat].total,
                                  ![t].pc = "storeTotal"]
    /\ Local

\* Statistic.update: self.total += value, the write.
StoreTotal(t) ==
    /\ At(t, "storeTotal")
    /\ statHeap' = [statHeap EXCEPT ![threads[t].stat].total =
                      FAdd(threads[t].tmp, threads[t].spec.duration[1])]
    /\ threads' = [threads EXCEPT ![t].pc = "del"]
    /\ UNCHANGED <<guidCounter, clock, loggerHeap, lastOp, closeLog>>

\* Logger.endBlock: del self.blockDct[spec.guid]
Del(t) ==
    /\ At(t, "del")
    /\ LET l == threads[t].logger
           guid == threads[t].spec.guid
       IN  IF guid \notin DOMAIN loggerHeap[l].blockDct
           THEN /\ threads' = [threads EXCEPT ![t].raised = "KeyError", ![t].pc = "done"]
                /\ UNCHANGED loggerHeap
           ELSE /\ loggerHeap' = [loggerHeap EXCEPT ![l].blockDct = MapDel(@, guid)]
                /\ threads' = [threads EXCEPT ![t].pc = "done"]
    /\ UNCHANGED <<guidCounter, clock, statHeap, lastOp, closeLog>>

NextThreads ==
    \E t \in DOMAIN threads :
        \/ ReadGuid(t) \/ LoadGuid(t) \/ StoreGuid(t) \/ Insert(t)
        \/ Check(t) \/ Lookup(t) \/ Test(t) \/ Create(t) \/ Get(t)
        \/ LoadCount(t) \/ StoreCount(t) \/ LoadTotal(t) \/ StoreTotal(t)
        \/ Del(t)

SpecThreads == InitThreads /\ [][NextThreads]_vars

(***************************************************************************)
(* Claims on threads (SpecThreads).                                        *)
(***************************************************************************)
AllDone == \A t \in DOMAIN threads : At(t, "done")

\* The threads that ran endBlock on Logger l for a span they opened as b.
Closers(l, b) ==
    {t \in DOMAIN threads : threads[t].logger = l /\ threads[t].block = b}

\* C3: once all threads have finished, no endBlock has raised, no Logger
\* holds an open span, and the statistic of each block name counts the
\* endBlock calls made for it.
C3_ThreadsCountExactly ==
    AllDone =>
        /\ \A t \in DOMAIN threads : threads[t].raised = "none"
        /\ \A l \in Refs : DOMAIN loggerHeap[l].blockDct = {}
        /\ \A l \in Refs, b \in Blocks :
             Closers(l, b) # {}
               => /\ b \in DctKeys(loggerHeap[l].statisticDct)
                  /\ StatOf(l, b).count = Cardinality(Closers(l, b))

\* C4: no two spans have the same guid, and a span created after another has
\* the greater guid.
C4_GuidsIncrease ==
    \A t \in Created, u \in Created :
        threads[t].seq < threads[u].seq => threads[t].spec.guid < threads[u].spec.guid

(***************************************************************************)
(* Timing and reporting (SpecReport): the Logger loggerHeap[1] times       *)
(* blocks and its report is read, in any order.                            *)
(***************************************************************************)
InitReport ==
    /\ guidCounter = 0
    /\ clock = 0
    /\ loggerHeap = <<Logger_init(TRUE, LEVEL_STATUS, 0)>>
    /\ statHeap = <<>>
    /\ lastOp = Call("Logger")
    /\ closeLog = <<>>
    /\ threads = <<>>

\* loggerHeap[l].endBlock(guid), no history kept.
ReportEndBlock(l, guid) ==
    /\ EndBlockCall(l, guid)
    /\ UNCHANGED closeLog

NextReport ==
    \/ Tick
    \/ \E l \in Refs, block \in Blocks : StartBlock(l, block)
    \/ \E l \in Refs, guid \in 0..guidCounter : ReportEndBlock(l, guid)
    \/ \E l \in Refs : PerformanceDF(l)

SpecReport == InitReport /\ [][NextReport]_vars

(***************************************************************************)
(* Claims on the report (SpecReport).                                      *)
(***************************************************************************)
\* C11: the table an access of performanceDF returns has one row for each
\* block name of statisticDct, in ascending order of the names, each with the
\* count and the total the Statistic has now and mean = total/count.
C11_ReportIsCurrent ==
    lastOp.op = "performanceDF" =>
        LET rows == lastOp.report
            l == lastOp.logger
        IN  /\ {rows[i].block : i \in DOMAIN rows} = KeysOf(l)
            /\ Len(rows) = Cardinality(KeysOf(l))
            /\ \A i \in DOMAIN rows, j \in DOMAIN rows :
                 i < j => BlockRank(rows[i].block) < BlockRank(rows[j].block)
            /\ \A i \in DOMAIN rows :
                 /\ rows[i].count = StatOf(l, rows[i].block).count
                 /\ rows[i].total = StatOf(l, rows[i].block).total
                 /\ rows[i].mean = MeanOf(rows[i].count, rows[i].total)

(***************************************************************************)
(* Claims on the report of a merged Logger (SpecMerge).                    *)
(***************************************************************************)
\* The report read from the Logger that the merge just made from others has
\* the sums over others in its rows.
ConsolidatedReport(others, rows) ==
    /\ {rows[i].block : i \in DOMAIN rows} = KeysOf(others[1])
    /\ \A i \in DOMAIN rows :
         /\ rows[i].count = SumCounts(others, rows[i].block, 1)
         /\ rows[i].total = FSum(Totals(others, rows[i].block))

\* C12: the report of the Logger that merge returned for Loggers with the
\* same block names has, for each name, the sum of their counts and the sum
\* of their totals, whether or not a report of theirs was read before.
C12_MergedReportIsConsolidated ==
    [][(/\ lastOp.op = "merge" /\ lastOp.raised = "none" /\ SameKeys(lastOp.others)
        /\ lastOp'.op = "performanceDF" /\ lastOp'.logger = lastOp.ret)
         => ConsolidatedReport(lastOp.others, lastOp'.report)]_vars

(***************************************************************************)
(* Copies (SpecCopy).  The Logger loggerHeap[1] has timed up to MaxCloses  *)
(* blocks and may have left the last one open.  Its report is read and it  *)
(* is copied once, in any order; from then on the original and the copy,   *)
(* loggerHeap[2], both time blocks, and they are compared.                 *)
(***************************************************************************)
InitCopy ==
    \E s1 \in Scripts :
        \E st \in {RunScript(Fresh, 1, s1, 1)} :
            /\ guidCounter = st.guid
            /\ clock = st.now
            /\ loggerHeap = <<st.lh[1]>>
            /\ statHeap = st.sh
            /\ lastOp = Call("Logger")
            /\ closeLog = <<>>
            /\ threads = <<>>

\* loggerHeap[1].copy(), once; the caller keeps the copy, as loggerHeap[2].
Copy ==
    /\ 2 \notin Refs
    /\ \E r \in {Logger_copy(loggerHeap, statHeap, 1)} :
       \E c \in {Collect(r.lh, r.sh, <<1, r.ret>>)} :
           /\ loggerHeap' = c.lh
           /\ statHeap' = c.sh
           /\ lastOp' = [Call("copy") EXCEPT !.logger = 1, !.ret = 2]
    /\ UNCHANGED <<guidCounter, clock, closeLog, threads>>

\* loggerHeap[a].equals(loggerHeap[b])
Equals(a, b) ==
    /\ \E r \in {Logger_equals(loggerHeap, statHeap, a, b)} :
           /\ loggerHeap' = r.lh
           /\ statHeap' = r.sh
           /\ lastOp' = [Call("equals") EXCEPT !.logger = a, !.others = <<b>>,
                                              !.raised = r.raised, !.equal = r.ret]
    /\ UNCHANGED <<guidCounter, clock, closeLog, threads>>

\* startBlock on the original or on the copy.
CopyStartBlock(l, block) ==
    /\ 2 \in Refs
    /\ StartBlock(l, block)

\* endBlock on the original or on the copy.
CopyEndBlock(l, guid) ==
    /\ 2 \in Refs
    /\ EndBlockCall(l, guid)
    /\ UNCHANGED closeLog

NextCopy ==
    \/ Copy
    \/ \E a \in Refs, b \in Refs : Equals(a, b)
    \/ \E l \in Refs : PerformanceDF(l)
    \/ \E l \in Refs, block \in Blocks : CopyStartBlock(l, block)
    \/ \E l \in Refs, guid \in 0..guidCounter : CopyEndBlock(l, guid)

SpecCopy == InitCopy /\ [][NextCopy]_vars

(***************************************************************************)
(* Claims on copies (SpecCopy).                                            *)
(***************************************************************************)
\* C13: the Logger that copy() returned is equals() to the original when the
\* two are compared right after the copy was made.
C13_CopyEqualsOriginal ==
    [][(lastOp.op = "copy" /\ lastOp'.op = "equals"
        /\ lastOp'.logger = lastOp.logger /\ lastOp'.others = <<lastOp.ret>>)
         => (lastOp'.raised = "none" /\ lastOp'.equal)]_vars

\* What Logger l holds: its open spans and, for each block name, the count,
\* total and mean of its Statistic.
Holdings(l) ==
    [blockDct |-> loggerHeap[l].blockDct,
     statistics |-> [j \in DOMAIN loggerHeap[l].statisticDct |->
                       [block |-> loggerHeap[l].statisticDct[j].block,
                        statistic |-> statHeap[loggerHeap[l].statisticDct[j].ref]]]]

\* C14: a Logger and its copy share no Statistic, and startBlock, endBlock or
\* a read of the report on one of them leaves what the other holds unchanged.
C14_CopyIsIndependent ==
    [][2 \in Refs =>
         /\ (StatRefs(1) \cap StatRefs(2))' = {}
         /\ lastOp'.op \in {"startBlock", "endBlock", "performanceDF"}
              => \A l \in {1, 2} \ {lastOp'.logger} : Holdings(l)' = Holdings(l)]_vars

\* The original has closed a span that its copy still holds open, and has
\* counted it.
C14_Witness ==
    /\ 2 \in Refs
    /\ lastOp.op = "endBlock" /\ lastOp.logger = 1 /\ lastOp.found
    /\ DOMAIN loggerHeap[2].blockDct \ DOMAIN loggerHeap[1].blockDct # {}
    /\ \E b \in KeysOf(1) \cap KeysOf(2) : StatOf(1, b).count > StatOf(2, b).count

(***************************************************************************)
(* More claims on the report (SpecReport).                                 *)
(***************************************************************************)
\* C15: every Statistic whose mean is set has mean = total/count, or 0.0 when
\* its count is 0.
C15_MeanIsCurrent ==
    \A r \in DOMAIN statHeap :
        statHeap[r].mean.set
          => statHeap[r].mean = MeanOf(statHeap[r].count, statHeap[r].total)

\* C16: unpairedBlocks of a Logger is the number of spans it holds open.
C16_UnpairedBlocksIsCurrent ==
    \A l \in Refs :
        loggerHeap[l].unpairedBlocks = Cardinality(DOMAIN loggerHeap[l].blockDct)

(***************************************************************************)
(* Messages (SpecLog): two Loggers of any configuration, and the calls of  *)
(* activity, result, status, exception and error on them.                  *)
(***************************************************************************)
Levels == LEVEL_ACTIVITY..LEVEL_MAX

InitLog ==
    /\ guidCounter = 0
    /\ clock = 0
    /\ \E r1 \in BOOLEAN, r2 \in BOOLEAN, l1 \in Levels, l2 \in Levels :
           loggerHeap = <<Logger_init(r1, l1, 0), Logger_init(r2, l2, 0)>>
    /\ statHeap = <<>>
    /\ lastOp = Call("Logger")
    /\ closeLog = <<>>
    /\ threads = <<>>

\* A call of one of the five methods; written tells whether it wrote.
Message(l, category, written) ==
    /\ lastOp' = [Call(category) EXCEPT !.logger = l,
                    !.emitted = IF written THEN category ELSE "none"]
    /\ UNCHANGED <<guidCounter, clock, loggerHeap, statHeap, closeLog, threads>>

Activity(l) == Message(l, "activity", Logger_activity(loggerHeap[l]))

Result(l) == Message(l, "result", Logger_result(loggerHeap[l]))

Status(l) == Message(l, "status", Logger_status(loggerHeap[l]))

Exception(l) == Message(l, "exception", Logger_exception(loggerHeap[l]))

Error(l) == Message(l, "error", Logger_error(loggerHeap[l]))

NextLog ==
    \E l \in Refs :
        Activity(l) \/ Result(l) \/ Status(l) \/ Exception(l) \/ Error(l)

SpecLog == InitLog /\ [][NextLog]_vars

(***************************************************************************)
(* Claims on messages (SpecLog).                                           *)
(***************************************************************************)
\* The categories of message a Logger writes.
Categories(logger) ==
    {c \in {"activity", "result", "status", "exception", "error"} :
        \/ c = "activity" /\ Logger_activity(logger)
        \/ c = "result" /\ Logger_result(logger)
        \/ c = "status" /\ Logger_status(logger)
        \/ c = "exception" /\ Logger_exception(logger)
        \/ c = "error" /\ Logger_error(logger)}

\* A Logger with isReport False writes nothing, whatever call was made on it.
SilentWhenDisabled ==
    /\ \A l \in Refs : ~loggerHeap[l].isReport => Categories(loggerHeap[l]) = {}
    /\ (lastOp.logger \in Refs /\ ~loggerHeap[lastOp.logger].isReport)
         => lastOp.emitted = "none"

\* C17: of two Loggers that report, the one with the higher logLevel writes
\* no category of message that the other does not write; a Logger that does
\* not report writes nothing.
C17_HigherLevelWritesLess ==
    /\ \A a \in Refs, b \in Refs :
         (/\ loggerHeap[a].isReport /\ loggerHeap[b].isReport
          /\ loggerHeap[a].logLevel < loggerHeap[b].logLevel)
           => Categories(loggerHeap[b]) \subseteq Categories(loggerHeap[a])
    /\ SilentWhenDisabled

(***************************************************************************)
(* Updates and summaries (SpecSummarize): the three Statistics of InitStat *)
(* are updated and summarized, in any order.                               *)
(***************************************************************************)
\* statHeap[a].update(value), while the Statistic stays within the bounds.
StatUpdate(a, value) ==
    /\ statHeap[a].count < MaxCount
    /\ statHeap[a].total + value <= MaxTotal
    /\ statHeap' = Statistic_update(statHeap, a, value)
    /\ lastOp' = [Call("Statistic.update") EXCEPT !.ret = a]
    /\ UNCHANGED <<guidCounter, clock, loggerHeap, closeLog, threads>>

\* statHeap[a].summarize()
StatSummarize(a) ==
    /\ statHeap' = Statistic_summarize(statHeap, a)
    /\ lastOp' = [Call("Statistic.summarize") EXCEPT !.ret = a]
    /\ UNCHANGED <<guidCounter, clock, loggerHeap, closeLog, threads>>

NextSummarize ==
    \/ \E a \in Inputs, value \in Floats : StatUpdate(a, value)
    \/ \E a \in Inputs : StatSummarize(a)

SpecSummarize == InitStat /\ [][NextSummarize]_vars

(***************************************************************************)
(* Claims on Statistic.summarize (SpecSummarize).                          *)
(***************************************************************************)
\* C18: summarize() on a Statistic that was just summarized leaves its count,
\* total and mean as they are.
C18_SummarizeIsIdempotent ==
    [][(/\ lastOp.op = "Statistic.summarize" /\ lastOp'.op = "Statistic.summarize"
        /\ lastOp'.ret = lastOp.ret)
         => statHeap' = statHeap]_vars

\* A Statistic with a count and a total that is not zero was summarized, and
\* its mean is total/count.
C18_Witness ==
    /\ lastOp.op = "Statistic.summarize"
    /\ statHeap[lastOp.ret].count > 0 /\ statHeap[lastOp.ret].total > 0
    /\ statHeap[lastOp.ret].mean = FDiv(statHeap[lastOp.ret].total, statHeap[lastOp.ret].count)

(***************************************************************************)
(* Claims on the life of a span (Spec).                                    *)
(***************************************************************************)
\* The guids that were closed: handed out, and in no blockDct any more.
Closed ==
    {g \in 0..(guidCounter - 1) : \A l \in Refs : g \notin DOMAIN loggerHeap[l].blockDct}

\* The counts of all Statistics, added up.
RECURSIVE CountFrom(_)
CountFrom(r) ==
    IF r > Len(statHeap) THEN 0 ELSE statHeap[r].count + CountFrom(r + 1)

\* C19: a guid that endBlock has closed is never a key of blockDct again, no
\* later startBlock returns it, a later endBlock of it changes no Logger and
\* no Statistic, and every closed guid has added one to the counts.
C19_SpanLifecycle ==
    [][/\ Closed \subseteq Closed'
       /\ lastOp'.op = "startBlock" => lastOp'.ret \notin Closed
       /\ (lastOp'.op = "endBlock" /\ lastOp'.others[1] \in Closed)
            => /\ ~lastOp'.found
               /\ loggerHeap' = loggerHeap
               /\ statHeap' = statHeap
       /\ CountFrom(1)' = Cardinality(Closed')]_vars

\* A closed guid was ended again, on a Logger that has opened a span since.
C19_Witness ==
    /\ lastOp.op = "endBlock" /\ lastOp.others[1] \in Closed
    /\ statHeap # <<>>
    /\ \E g \in DOMAIN loggerHeap[lastOp.logger].blockDct : g > lastOp.others[1]

(***************************************************************************)
(* Claims on what a read of the report changes (SpecReport).               *)
(***************************************************************************)
\* C20: a read of performanceDF leaves blockDct, the block names of
\* statisticDct and the count and total of every Statistic as they were.
C20_ReportKeepsAccounts ==
    [][lastOp'.op = "performanceDF" =>
         /\ \A l \in Refs :
              /\ loggerHeap'[l].blockDct = loggerHeap[l].blockDct
              /\ loggerHeap'[l].statisticDct = loggerHeap[l].statisticDct
         /\ DOMAIN statHeap' = DOMAIN statHeap
         /\ \A r \in DOMAIN statHeap :
              /\ statHeap'[r].block = statHeap[r].block
              /\ statHeap'[r].count = statHeap[r].count
              /\ statHeap'[r].total = statHeap[r].total]_vars

\* The report was read for the first time on a Logger that holds an open span
\* and a Statistic with a total: the mean was set and the span was counted.
C20_Witness ==
    /\ lastOp.op = "performanceDF" /\ lastOp.report # <<>>
    /\ DOMAIN loggerHeap[lastOp.logger].blockDct # {}
    /\ loggerHeap[lastOp.logger].unpairedBlocks
         = Cardinality(DOMAIN loggerHeap[lastOp.logger].blockDct)
    /\ \E b \in KeysOf(lastOp.logger) :
         /\ StatOf(lastOp.logger, b).total > 0
         /\ StatOf(lastOp.logger, b).mean.set

====
